---- MODULE Spec2Model ----
(***************************************************************************)
(* Model of codex-rs/core: file_path_detection.rs (path scanner and        *)
(* substitution engine) and attachment_handler.rs (attachment codec and    *)
(* store).                                                                 *)
(*                                                                         *)
(* A Rust str / byte buffer is a sequence of bytes.  An ASCII byte is the  *)
(* one-character string of its character; the bytes of multi-byte UTF-8    *)
(* characters are written in hex ("C3","A9" is U+00E9; "EF","BF","BD" is   *)
(* U+FFFD); "FF" is a byte that is not valid UTF-8 (it can occur in an     *)
(* OsString but never in a str).  Offsets are 0-based byte offsets as in   *)
(* the source; Sequences are 1-based, so byte offset i is element i+1.     *)
(***************************************************************************)
EXTENDS Integers, Sequences, FiniteSets, TLC

VARIABLES
    \* substitute_file_paths_with_urls
    input,           \* the `input` argument
    path_url_map,    \* the `path_url_map` argument: sequence of [path, url]
    result,          \* the local `result`
    path_positions,  \* the local `path_positions`: [start, end, pair]
    pair_i,          \* position of the `for (path, url)` loop (1-based)
    start_idx,       \* the local `start_idx`
    pos_i,           \* position of the `for (start, end, _, url)` loop
    sub_pc,          \* "idle","detect","upload","scan","replace","done","panic"
    \* detect_local_file_paths and its environment
    fs_files,        \* the path strings for which exists() && is_file() holds
    home,            \* dirs::home_dir(): [some, dir]
    detected,        \* the returned `paths`
    mentions,        \* per returned path: the grammar and the text that matched
    \* attachment_handler.rs and its environment
    files,           \* the regular files: resolved path -> bytes
    dirs,            \* the directories: a set of resolved paths
    sv,              \* per caller of save_data_url_to_file: its locals and position
    desc,            \* the descriptor handed to process_attachment
    origin,          \* where desc came from, and the bytes it was encoded from
    batch,           \* the argument of a batch operation
    batch_i,         \* position of the batch's `for` loop (1-based)
    batch_out,       \* the local `attachments` / `file_paths`
    batch_pc,        \* "idle","enc_loop","dec_loop","dec_wait","ok","err"
    batch_ret,       \* the batch's returned Result: [ok, value, err]
    processed        \* the elements the batch has handed on, in order

subVars == <<input, path_url_map, result, path_positions, pair_i, start_idx,
             pos_i, sub_pc>>

detectVars == <<fs_files, home, detected, mentions>>

batchVars == <<batch, batch_i, batch_out, batch_pc, batch_ret, processed>>

storeVars == <<files, dirs, sv, desc, origin, batchVars>>

vars == <<subVars, detectVars, storeVars>>

----------------------------------------------------------------------------
(* Bounds of the model *)

MaxText == 4
MaxPath == 2
MaxUrl == 1
MaxPairs == 2
MaxFrags == 4
MaxBytes == 4
MaxContentFrags == 4
MaxRaceBytes == 2
MaxBatch == 3

\* The characters (as byte sequences) the texts, paths and urls are made of.
TextChars == {<<"a">>, <<"C3", "A9">>}

PathChars == {<<"a">>, <<"C3", "A9">>, <<"FF">>}

UrlChars == {<<"u">>, <<"C3", "A9">>}

----------------------------------------------------------------------------
(* Strings *)

Max(a, b) == IF a < b THEN b ELSE a

\* The UTF-8 continuation bytes that occur in the model's alphabet.
ContinuationBytes == {"A9", "BF", "BD"}

\* str::is_char_boundary: offset 0, the length, or a byte that starts a character.
IsCharBoundary(s, i) ==
    \/ i = 0
    \/ i = Len(s)
    \/ /\ 0 < i
       /\ i < Len(s)
       /\ s[i + 1] \notin ContinuationBytes

\* s[from..to] of the source (0-based, `to` exclusive).
Slice(s, from, to) == SubSeq(s, from + 1, to)

\* Whether `needle` occurs in `hay` at byte offset i.
OccursAt(hay, needle, i) ==
    /\ i >= 0
    /\ i + Len(needle) <= Len(hay)
    /\ Slice(hay, i, i + Len(needle)) = needle

\* str::find: the byte offset of the first occurrence, -1 for None.
Find(hay, needle) ==
    LET hits == {i \in 0..Len(hay) : OccursAt(hay, needle, i)}
    IN  IF hits = {} THEN -1 ELSE CHOOSE i \in hits : \A j \in hits : i <= j

\* Path::to_string_lossy: bytes that are not valid UTF-8 become U+FFFD.
RECURSIVE ToStringLossy(_)
ToStringLossy(p) ==
    IF p = <<>> THEN <<>>
    ELSE IF Head(p) = "FF" THEN <<"EF", "BF", "BD">> \o ToStringLossy(Tail(p))
    ELSE <<Head(p)>> \o ToStringLossy(Tail(p))

\* All concatenations of at most n elements of `chars` (each a byte sequence).
RECURSIVE StrsUpTo(_, _)
StrsUpTo(chars, n) ==
    IF n = 0 THEN {<<>>}
    ELSE LET S == StrsUpTo(chars, n - 1)
         IN  S \cup {s \o c : s \in S, c \in chars}

\* All sequences of at most n elements of S.
RECURSIVE SeqsUpTo(_, _)
SeqsUpTo(S, n) ==
    IF n = 0 THEN {<<>>}
    ELSE LET T == SeqsUpTo(S, n - 1)
         IN  T \cup {Append(t, x) : t \in T, x \in S}

----------------------------------------------------------------------------
(* substitute_file_paths_with_urls *)

\* `result[start_idx..]` is evaluated: it panics past the end or inside a character.
SliceFromOk(s, i) == i <= Len(s) /\ IsCharBoundary(s, i)

\* The next value of `start_idx` after a hit at abs_pos (line 94).
NextStart(abs_pos, path_str) == abs_pos + 1

\* String::replace_range(start..end, _) panics unless start <= end <= len and
\* both are character boundaries.
ReplaceRangeOk(s, start, end) ==
    /\ start <= end
    /\ end <= Len(s)
    /\ IsCharBoundary(s, start)
    /\ IsCharBoundary(s, end)

ReplaceRange(s, start, end, with) ==
    Slice(s, 0, start) \o with \o Slice(s, end, Len(s))

\* sort_by(|a, b| b.0.cmp(&a.0)): a stable sort by descending start.
RECURSIVE InsertDesc(_, _)
InsertDesc(sorted, x) ==
    IF sorted = <<>> THEN <<x>>
    ELSE IF Head(sorted).start >= x.start
         THEN <<Head(sorted)>> \o InsertDesc(Tail(sorted), x)
         ELSE <<x>> \o sorted

RECURSIVE SortDesc(_)
SortDesc(ps) ==
    IF ps = <<>> THEN <<>>
    ELSE InsertDesc(SortDesc(SubSeq(ps, 1, Len(ps) - 1)), ps[Len(ps)])

PathStr(k) == ToStringLossy(path_url_map[k].path)

\* Line 83: let mut result = input.to_string(), and the loop state.
SubStartState(text, pairs) ==
    /\ input = text
    /\ path_url_map = pairs
    /\ result = text
    /\ path_positions = <<>>
    /\ pair_i = 1
    /\ start_idx = 0
    /\ pos_i = 1

\* One evaluation of the `while let` condition of lines 91-95 that finds an
\* occurrence (and records it), or panics in `result[start_idx..]`.
ScanFind ==
    /\ UNCHANGED <<detectVars, storeVars>>
    /\ sub_pc = "scan"
    /\ pair_i <= Len(path_url_map)
    /\ IF ~SliceFromOk(result, start_idx)
       THEN /\ sub_pc' = "panic"
            /\ UNCHANGED <<input, path_url_map, result, path_positions, pair_i,
                           start_idx, pos_i>>
       ELSE LET pos == Find(Slice(result, start_idx, Len(result)), PathStr(pair_i))
                abs_pos == start_idx + pos
            IN  /\ pos >= 0
                /\ path_positions' = Append(path_positions,
                       [start |-> abs_pos,
                        end |-> abs_pos + Len(PathStr(pair_i)),
                        pair |-> pair_i])
                /\ start_idx' = NextStart(abs_pos, PathStr(pair_i))
                /\ UNCHANGED <<input, path_url_map, result, pair_i, pos_i, sub_pc>>

\* The `while let` condition yields None: the `for` loop of line 87 moves on.
ScanNextPair ==
    /\ UNCHANGED <<detectVars, storeVars>>
    /\ sub_pc = "scan"
    /\ pair_i <= Len(path_url_map)
    /\ SliceFromOk(result, start_idx)
    /\ Find(Slice(result, start_idx, Len(result)), PathStr(pair_i)) < 0
    /\ pair_i' = pair_i + 1
    /\ start_idx' = 0
    /\ UNCHANGED <<input, path_url_map, result, path_positions, pos_i, sub_pc>>

\* Line 98.
SortPositions ==
    /\ UNCHANGED <<detectVars, storeVars>>
    /\ sub_pc = "scan"
    /\ pair_i > Len(path_url_map)
    /\ path_positions' = SortDesc(path_positions)
    /\ pos_i' = 1
    /\ sub_pc' = "replace"
    /\ UNCHANGED <<input, path_url_map, result, pair_i, start_idx>>

\* One iteration of the loop of lines 100-102.
ReplaceStep ==
    /\ UNCHANGED <<detectVars, storeVars>>
    /\ sub_pc = "replace"
    /\ pos_i <= Len(path_positions)
    /\ LET sp == path_positions[pos_i]
       IN  IF ReplaceRangeOk(result, sp.start, sp.end)
           THEN /\ result' = ReplaceRange(result, sp.start, sp.end,
                                          path_url_map[sp.pair].url)
                /\ pos_i' = pos_i + 1
                /\ UNCHANGED sub_pc
           ELSE /\ sub_pc' = "panic"
                /\ UNCHANGED <<result, pos_i>>
    /\ UNCHANGED <<input, path_url_map, path_positions, pair_i, start_idx>>

\* Line 104.
SubReturn ==
    /\ UNCHANGED <<detectVars, storeVars>>
    /\ sub_pc = "replace"
    /\ pos_i > Len(path_positions)
    /\ sub_pc' = "done"
    /\ UNCHANGED <<input, path_url_map, result, path_positions, pair_i,
                   start_idx, pos_i>>

SubNext == ScanFind \/ ScanNextPair \/ SortPositions \/ ReplaceStep \/ SubReturn

----------------------------------------------------------------------------
(* detect_local_file_paths *)

Lower == {"a", "b", "c", "d", "e", "f", "g", "h", "i", "j", "k", "l", "m",
          "n", "o", "p", "q", "r", "s", "t", "u", "v", "w", "x", "y", "z"}

Upper == {"A", "B", "C", "D", "E", "F", "G", "H", "I", "J", "K", "L", "M",
          "N", "O", "P", "Q", "R", "S", "T", "U", "V", "W", "X", "Y", "Z"}

Digit == {"0", "1", "2", "3", "4", "5", "6", "7", "8", "9"}

\* [a-zA-Z0-9_.-/] (lines 9-11): `.-/` is the range from '.' to '/'.
UnixClass == Lower \cup Upper \cup Digit \cup {"_", ".", "/"}

\* [a-zA-Z0-9_.-\\] (line 12): `.-\\` is the range from '.' (2E) to '\' (5C).
WindowsClass ==
    Lower \cup Upper \cup Digit
        \cup {"_", ".", "/", ":", ";", "<", "=", ">", "?", "@", "[", "\\"}

\* [\w\./\?\-_%&=] (line 13), on ASCII text.
UrlClass == Lower \cup Upper \cup Digit \cup {"_", ".", "/", "?", "-", "%", "&", "="}

StartsWithAt(s, i, lit) == OccursAt(s, lit, i)

\* The length of the fixed part of a pattern matched at byte offset i, 0 if none.
PrefixLen(s, i, kind) ==
    CASE kind = "unix" -> IF StartsWithAt(s, i, <<"/">>) THEN 1 ELSE 0
      [] kind = "relative" -> IF StartsWithAt(s, i, <<".", "/">>) THEN 2 ELSE 0
      [] kind = "home" -> IF StartsWithAt(s, i, <<"~", "/">>) THEN 2 ELSE 0
      [] kind = "windows" ->
            IF /\ i + 3 <= Len(s)
               /\ s[i + 1] \in Lower \cup Upper
               /\ s[i + 2] = ":"
               /\ s[i + 3] = "\\"
            THEN 3 ELSE 0
      [] kind = "url" ->
            IF StartsWithAt(s, i, <<"h", "t", "t", "p", "s", ":", "/", "/">>) THEN 8
            ELSE IF StartsWithAt(s, i, <<"h", "t", "t", "p", ":", "/", "/">>) THEN 7
            ELSE 0

ClassOf(kind) ==
    CASE kind = "windows" -> WindowsClass
      [] kind = "url" -> UrlClass
      [] OTHER -> UnixClass

\* The end of the longest run of class characters that starts at offset i.
RECURSIVE RunEnd(_, _, _)
RunEnd(s, i, class) ==
    IF i < Len(s) /\ s[i + 1] \in class THEN RunEnd(s, i + 1, class) ELSE i

\* Regex::captures_iter / replace_all: the leftmost, non-overlapping, greedy
\* matches of `<fixed part><class>+` from offset i on, as [start, end].
RECURSIVE MatchSpans(_, _, _)
MatchSpans(s, i, kind) ==
    IF i >= Len(s) THEN <<>>
    ELSE LET pl == PrefixLen(s, i, kind)
             e == RunEnd(s, i + pl, ClassOf(kind))
         IN  IF pl > 0 /\ e > i + pl
             THEN <<[start |-> i, end |-> e]>> \o MatchSpans(s, e, kind)
             ELSE MatchSpans(s, i + 1, kind)

\* URL_REGEX.replace_all(input, "") (line 33).
RECURSIVE RemoveSpans(_, _, _)
RemoveSpans(s, spans, from) ==
    IF spans = <<>> THEN Slice(s, from, Len(s))
    ELSE Slice(s, from, Head(spans).start)
             \o RemoveSpans(s, Tail(spans), Head(spans).end)

StripUrls(s) == RemoveSpans(s, MatchSpans(s, 0, "url"), 0)

TrimSet == {" ", "'", "\"", "(", ")"}

\* str::trim_matches(|c| " '\"()".contains(c)).
RECURSIVE TrimMatches(_)
TrimMatches(s) ==
    IF s = <<>> THEN s
    ELSE IF Head(s) \in TrimSet THEN TrimMatches(Tail(s))
    ELSE IF s[Len(s)] \in TrimSet THEN TrimMatches(SubSeq(s, 1, Len(s) - 1))
    ELSE s

\* str::strip_prefix(c).unwrap_or(s).
StripPrefix(s, c) == IF s # <<>> /\ Head(s) = c THEN Tail(s) ELSE s

\* Path::join on Unix: an absolute argument replaces the base; a separator is
\* added unless the base is empty or ends with one.
PathJoin(base, p) ==
    IF p # <<>> /\ Head(p) = "/" THEN p
    ELSE IF base = <<>> \/ base[Len(base)] = "/" THEN base \o p
    ELSE base \o <<"/">> \o p

\* Lines 57-59: the path a home-relative match resolves to.
HomeResolve(path_str) ==
    PathJoin(home.dir, StripPrefix(StripPrefix(path_str, "~"), "/"))

\* The candidate path of one match, or "none" when the match is dropped.
Candidate(kind, matched) ==
    LET path_str == TrimMatches(matched)
    IN  IF kind = "home"
        THEN IF home.some THEN [ok |-> TRUE, path |-> HomeResolve(path_str)]
             ELSE [ok |-> FALSE, path |-> <<>>]
        ELSE [ok |-> TRUE, path |-> path_str]

\* One of the four loops (lines 36-43, 45-52, 54-65, 67-74): the matches of
\* one grammar whose candidate exists and is a regular file.
RECURSIVE Qualifying(_, _, _)
Qualifying(s, spans, kind) ==
    IF spans = <<>> THEN <<>>
    ELSE LET matched == Slice(s, Head(spans).start, Head(spans).end)
             c == Candidate(kind, matched)
             rest == Qualifying(s, Tail(spans), kind)
         IN  IF c.ok /\ c.path \in fs_files
             THEN <<[path |-> c.path, grammar |-> kind, text |-> matched]>> \o rest
             ELSE rest

GrammarOrder == <<"unix", "relative", "home", "windows">>

DetectAll(text) ==
    LET input_str == StripUrls(text)
        of(k) == Qualifying(input_str, MatchSpans(input_str, 0, GrammarOrder[k]),
                            GrammarOrder[k])
    IN  of(1) \o of(2) \o of(3) \o of(4)

\* detect_local_file_paths(input), lines 30-77.
Detect ==
    /\ UNCHANGED storeVars
    /\ sub_pc = "detect"
    /\ LET found == DetectAll(input)
       IN  /\ detected' = [k \in 1..Len(found) |-> found[k].path]
           /\ mentions' = [k \in 1..Len(found) |->
                              [grammar |-> found[k].grammar, text |-> found[k].text]]
    /\ sub_pc' = "upload"
    /\ UNCHANGED <<input, path_url_map, result, path_positions, pair_i,
                   start_idx, pos_i, fs_files, home>>

\* The Transport collaborator assigns a url to every detected path, and the
\* caller hands the text and the pairs to substitute_file_paths_with_urls.
Upload ==
    /\ UNCHANGED storeVars
    /\ sub_pc = "upload"
    /\ \E urls \in [1..Len(detected) -> StrsUpTo(UrlChars, MaxUrl)] :
           path_url_map' = [k \in 1..Len(detected) |->
                               [path |-> detected[k], url |-> urls[k]]]
    /\ result' = input
    /\ path_positions' = <<>>
    /\ pair_i' = 1
    /\ start_idx' = 0
    /\ pos_i' = 1
    /\ sub_pc' = "scan"
    /\ UNCHANGED <<input, detectVars>>

PipeNext ==
    \/ Detect
    \/ Upload
    \/ ScanFind
    \/ ScanNextPair
    \/ SortPositions
    \/ ReplaceStep
    \/ SubReturn

----------------------------------------------------------------------------
(* Base64, standard alphabet with padding (general_purpose::STANDARD) *)

B64Chars ==
    <<"A", "B", "C", "D", "E", "F", "G", "H", "I", "J", "K", "L", "M", "N", "O", "P",
      "Q", "R", "S", "T", "U", "V", "W", "X", "Y", "Z", "a", "b", "c", "d", "e", "f",
      "g", "h", "i", "j", "k", "l", "m", "n", "o", "p", "q", "r", "s", "t", "u", "v",
      "w", "x", "y", "z", "0", "1", "2", "3", "4", "5", "6", "7", "8", "9", "+", "/">>

B64Set == {B64Chars[i] : i \in 1..64}

B64Char(v) == B64Chars[v + 1]

B64Val(c) == (CHOOSE i \in 1..64 : B64Chars[i] = c) - 1

\* Engine::encode
RECURSIVE B64Encode(_)
B64Encode(bytes) ==
    IF bytes = <<>> THEN <<>>
    ELSE IF Len(bytes) = 1
    THEN LET n == bytes[1] * 65536
         IN  <<B64Char(n \div 262144), B64Char((n \div 4096) % 64), "=", "=">>
    ELSE IF Len(bytes) = 2
    THEN LET n == bytes[1] * 65536 + bytes[2] * 256
         IN  <<B64Char(n \div 262144), B64Char((n \div 4096) % 64),
               B64Char((n \div 64) % 64), "=">>
    ELSE LET n == bytes[1] * 65536 + bytes[2] * 256 + bytes[3]
         IN  <<B64Char(n \div 262144), B64Char((n \div 4096) % 64),
               B64Char((n \div 64) % 64), B64Char(n % 64)>>
                 \o B64Encode(SubSeq(bytes, 4, Len(bytes)))

\* The number of '=' at the end of s.
RECURSIVE PadCount(_)
PadCount(s) ==
    IF s # <<>> /\ s[Len(s)] = "=" THEN 1 + PadCount(SubSeq(s, 1, Len(s) - 1)) ELSE 0

\* The bytes of a run of complete quads followed by a last group of 0, 2 or 3 symbols.
RECURSIVE B64Bytes(_)
B64Bytes(syms) ==
    IF syms = <<>> THEN <<>>
    ELSE IF Len(syms) = 2
    THEN LET n == B64Val(syms[1]) * 262144 + B64Val(syms[2]) * 4096
         IN  <<n \div 65536>>
    ELSE IF Len(syms) = 3
    THEN LET n == B64Val(syms[1]) * 262144 + B64Val(syms[2]) * 4096
                    + B64Val(syms[3]) * 64
         IN  <<n \div 65536, (n \div 256) % 256>>
    ELSE LET n == B64Val(syms[1]) * 262144 + B64Val(syms[2]) * 4096
                    + B64Val(syms[3]) * 64 + B64Val(syms[4])
         IN  <<n \div 65536, (n \div 256) % 256, n % 256>>
                 \o B64Bytes(SubSeq(syms, 5, Len(syms)))

\* Engine::decode: the length is a multiple of 4 (canonical padding is
\* required), '=' occurs only as the last one or two symbols, every other
\* symbol is of the alphabet, and the unused low bits of the last symbol are 0.
B64Decode(s) ==
    LET pad == PadCount(s)
        syms == SubSeq(s, 1, Len(s) - pad)
        wellFormed ==
            /\ Len(s) % 4 = 0
            /\ pad <= 2
            /\ \A i \in 1..Len(syms) : syms[i] \in B64Set
            /\ pad = 1 => B64Val(syms[Len(syms)]) % 4 = 0
            /\ pad = 2 => B64Val(syms[Len(syms)]) % 16 = 0
    IN  IF wellFormed THEN [ok |-> TRUE, bytes |-> B64Bytes(syms)]
        ELSE [ok |-> FALSE, bytes |-> <<>>]

----------------------------------------------------------------------------
(* Data URLs *)

\* str::split(sep).collect(): the segments between the separators.
RECURSIVE Split(_, _)
Split(s, sep) ==
    LET at == Find(s, <<sep>>)
    IN  IF at < 0 THEN <<s>>
        ELSE <<Slice(s, 0, at)>> \o Split(Slice(s, at + 1, Len(s)), sep)

\* A decoder handed the segment before the ',' instead of the one after it.
PayloadOfFirst(base64_parts) == base64_parts[1]

\* Which segment of parts[1].split(',') is handed to the decoder (line 64).
PayloadOf(base64_parts) == base64_parts[2]

\* A best-effort parse: without a ';', whatever follows the first ',' is the payload.
ParseDataUrlLenient(data_url) ==
    LET at == Find(data_url, <<",">>)
    IN  IF at < 0 THEN [ok |-> FALSE, payload |-> <<>>]
        ELSE [ok |-> TRUE, payload |-> Slice(data_url, at + 1, Len(data_url))]

\* Lines 49-62: the payload segment of a data URL, or a format error.
ParseDataUrl(data_url) ==
    LET parts == Split(data_url, ";")
    IN  IF Len(parts) < 2 THEN [ok |-> FALSE, payload |-> <<>>]
        ELSE IF Len(Split(parts[1], ":")) < 2 THEN [ok |-> FALSE, payload |-> <<>>]
        ELSE IF Len(Split(parts[2], ",")) < 2 THEN [ok |-> FALSE, payload |-> <<>>]
        ELSE [ok |-> TRUE, payload |-> PayloadOf(Split(parts[2], ","))]

\* The file name's extension (Path::extension), <<>> if it has none.
Extension(name) ==
    LET dots == {i \in 2..Len(name) : name[i] = "."}
    IN  IF dots = {} THEN <<>>
        ELSE SubSeq(name, (CHOOSE i \in dots : \A j \in dots : j <= i) + 1, Len(name))

OctetStream ==
    <<"a", "p", "p", "l", "i", "c", "a", "t", "i", "o", "n", "/",
      "o", "c", "t", "e", "t", "-", "s", "t", "r", "e", "a", "m">>

\* mime_guess::from_path(path).first_or_octet_stream() (lines 15-17).
MimeOf(name) ==
    CASE Extension(name) = <<"c", "s", "v">> -> <<"t", "e", "x", "t", "/", "c", "s", "v">>
      [] Extension(name) = <<"t", "x", "t">> ->
             <<"t", "e", "x", "t", "/", "p", "l", "a", "i", "n">>
      [] OTHER -> OctetStream

\* format!("data:{};base64,{}", mime_type, encoded) (line 19).
DataUrl(mime_type, encoded) ==
    <<"d", "a", "t", "a", ":">> \o mime_type
        \o <<";", "b", "a", "s", "e", "6", "4", ",">> \o encoded

----------------------------------------------------------------------------
(* The file system: paths are resolved against the working directory /w,   *)
(* without symbolic links.                                                 *)

Cwd == <<<<"w">>>>

\* Path::components, "." and empty components dropped.
PathComponents(p) == SelectSeq(Split(p, "/"), LAMBDA c : c # <<>> /\ c # <<".">>)

IsAbsolute(p) == p # <<>> /\ Head(p) = "/"

EndsWithSlash(p) == p # <<>> /\ p[Len(p)] = "/"

Parent(d) == IF d = <<>> THEN d ELSE SubSeq(d, 1, Len(d) - 1)

\* The directory reached from `cur` through `comps`, every one of which must
\* be an existing directory.
RECURSIVE WalkDir(_, _, _)
WalkDir(ds, cur, comps) ==
    IF comps = <<>> THEN [ok |-> TRUE, dir |-> cur]
    ELSE IF Head(comps) = <<".", ".">> THEN WalkDir(ds, Parent(cur), Tail(comps))
    ELSE IF Append(cur, Head(comps)) \in ds
         THEN WalkDir(ds, Append(cur, Head(comps)), Tail(comps))
         ELSE [ok |-> FALSE, dir |-> cur]

StartDir(p) == IF IsAbsolute(p) THEN <<>> ELSE Cwd

\* The resolved path a file name denotes: its directory must exist and its last
\* component must name a file position (not "..", not a directory).
ResolveFile(ds, p) ==
    LET comps == PathComponents(p)
        last == comps[Len(comps)]
        up == WalkDir(ds, StartDir(p), SubSeq(comps, 1, Len(comps) - 1))
    IN  IF comps = <<>> \/ EndsWithSlash(p) THEN [ok |-> FALSE, target |-> <<>>]
        ELSE IF last = <<".", ".">> \/ ~up.ok THEN [ok |-> FALSE, target |-> <<>>]
        ELSE IF Append(up.dir, last) \in ds THEN [ok |-> FALSE, target |-> <<>>]
        ELSE [ok |-> TRUE, target |-> Append(up.dir, last)]

\* std::fs::create_dir_all: every missing directory of the path is created;
\* it fails where a component exists as a regular file.
RECURSIVE MkdirAll(_, _, _, _)
MkdirAll(ds, fl, cur, comps) ==
    IF comps = <<>> THEN [ok |-> TRUE, dirs |-> ds]
    ELSE IF Head(comps) = <<".", ".">> THEN MkdirAll(ds, fl, Parent(cur), Tail(comps))
    ELSE IF Append(cur, Head(comps)) \in DOMAIN fl THEN [ok |-> FALSE, dirs |-> ds]
    ELSE MkdirAll(ds \cup {Append(cur, Head(comps))}, fl,
                  Append(cur, Head(comps)), Tail(comps))

CreateDirAll(ds, fl, p) == MkdirAll(ds, fl, StartDir(p), PathComponents(p))

\* File::create: the file is created, or truncated if it exists.
Truncated(old) == <<>>

PutFile(fl, target, bytes) ==
    [q \in DOMAIN fl \cup {target} |-> IF q = target THEN bytes ELSE fl[q]]

\* One write() through a descriptor at offset `off`: a gap left by a
\* truncation in between reads as zero bytes.
WriteAt(content, off, chunk) ==
    LET n == Max(Len(content), off + Len(chunk))
    IN  [i \in 1..n |->
            IF i > off /\ i <= off + Len(chunk) THEN chunk[i - off]
            ELSE IF i <= Len(content) THEN content[i]
            ELSE 0]

----------------------------------------------------------------------------
(* attachment_handler.rs *)

Procs == {1, 2}

NoStr == [some |-> FALSE, str |-> <<>>]

Some(s) == [some |-> TRUE, str |-> s]

NoDesc == [content |-> NoStr, name |-> NoStr]

IdleCall(save_dir) ==
    [pc |-> "idle", save_dir |-> save_dir, data_url |-> <<>>, filename |-> <<>>,
     decoded |-> <<>>, target |-> <<>>, off |-> 0, writes |-> 0, err |-> "none"]

\* Path::file_name().and_then(|name| name.to_str()) (lines 24-25).
FileName(p) ==
    LET comps == PathComponents(p)
        last == comps[Len(comps)]
    IN  IF comps = <<>> THEN NoStr
        ELSE IF last = <<".", ".">> THEN NoStr
        ELSE IF \E i \in 1..Len(last) : last[i] = "FF" THEN NoStr
        ELSE Some(last)

\* file_to_attachment(path), lines 11-33.
FileToAttachment(fl, ds, path) ==
    LET at == ResolveFile(ds, path)
        name == FileName(path)
    IN  IF ~at.ok \/ at.target \notin DOMAIN fl
        THEN [ok |-> FALSE, err |-> "io", desc |-> NoDesc]
        ELSE IF ~name.some THEN [ok |-> FALSE, err |-> "validation", desc |-> NoDesc]
        ELSE [ok |-> TRUE, err |-> "none",
              desc |-> [content |-> Some(DataUrl(MimeOf(name.str),
                                                 B64Encode(fl[at.target]))),
                        name |-> name]]

\* process_attachment, lines 78-85: the fields are read and the call is made.
ProcessAttachment(p) ==
    /\ sv[p].pc = "idle"
    /\ origin[p].from \in {"encoded", "remote", "batch"}
    /\ origin[p].from = "batch" => batch_pc = "dec_wait"
    /\ IF desc[p].content.some /\ desc[p].name.some
       THEN sv' = [sv EXCEPT ![p].pc = "start",
                             ![p].data_url = desc[p].content.str,
                             ![p].filename = desc[p].name.str]
       ELSE sv' = [sv EXCEPT ![p].pc = "err", ![p].err = "format"]
    /\ UNCHANGED <<files, dirs, desc, origin, batchVars>>
    /\ UNCHANGED <<subVars, detectVars>>

\* save_data_url_to_file, lines 49-64.
SaveDecode(p) ==
    /\ sv[p].pc = "start"
    /\ LET parsed == ParseDataUrl(sv[p].data_url)
           dec == B64Decode(parsed.payload)
       IN  IF ~parsed.ok
           THEN sv' = [sv EXCEPT ![p].pc = "err", ![p].err = "format"]
           ELSE IF ~dec.ok
           THEN sv' = [sv EXCEPT ![p].pc = "err", ![p].err = "decode"]
           ELSE sv' = [sv EXCEPT ![p].pc = "mkdir", ![p].decoded = dec.bytes]
    /\ UNCHANGED <<files, dirs, desc, origin, batchVars>>
    /\ UNCHANGED <<subVars, detectVars>>

\* Line 66.
SaveCreateDirAll(p) ==
    /\ sv[p].pc = "mkdir"
    /\ LET made == CreateDirAll(dirs, files, sv[p].save_dir)
       IN  IF made.ok
           THEN /\ dirs' = made.dirs
                /\ sv' = [sv EXCEPT ![p].pc = "create"]
           ELSE /\ sv' = [sv EXCEPT ![p].pc = "err", ![p].err = "io"]
                /\ UNCHANGED dirs
    /\ UNCHANGED <<files, desc, origin, batchVars>>
    /\ UNCHANGED <<subVars, detectVars>>

\* Line 68.
FilePath(save_dir, filename) == PathJoin(save_dir, filename)

\* Lines 68-70.
SaveCreate(p) ==
    /\ sv[p].pc = "create"
    /\ LET at == ResolveFile(dirs, FilePath(sv[p].save_dir, sv[p].filename))
       IN  IF at.ok
           THEN /\ files' = PutFile(files, at.target,
                                    IF at.target \in DOMAIN files
                                    THEN Truncated(files[at.target]) ELSE <<>>)
                /\ sv' = [sv EXCEPT ![p].pc = "write", ![p].target = at.target,
                                    ![p].off = 0]
           ELSE /\ sv' = [sv EXCEPT ![p].pc = "err", ![p].err = "io"]
                /\ UNCHANGED files
    /\ UNCHANGED <<dirs, desc, origin, batchVars>>
    /\ UNCHANGED <<subVars, detectVars>>

\* Line 71: one write() of write_all's loop, which may be a partial write.
SaveWrite(p) ==
    /\ sv[p].pc = "write"
    /\ sv[p].off < Len(sv[p].decoded)
    /\ \E n \in 1..(Len(sv[p].decoded) - sv[p].off) :
           /\ files' = PutFile(files, sv[p].target,
                               WriteAt(files[sv[p].target], sv[p].off,
                                       Slice(sv[p].decoded, sv[p].off, sv[p].off + n)))
           /\ sv' = [sv EXCEPT ![p].off = sv[p].off + n,
                               ![p].writes = sv[p].writes + 1]
    /\ UNCHANGED <<dirs, desc, origin, batchVars>>
    /\ UNCHANGED <<subVars, detectVars>>

\* Lines 71-75: write_all has written everything; Ok(file_path).
SaveReturn(p) ==
    /\ sv[p].pc = "write"
    /\ sv[p].off = Len(sv[p].decoded)
    /\ sv' = [sv EXCEPT ![p].pc = "done"]
    /\ UNCHANGED <<files, dirs, desc, origin, batchVars>>
    /\ UNCHANGED <<subVars, detectVars>>

\* file_to_attachment(origin[p].path), whose descriptor is then decoded.
Encode(p) ==
    /\ origin[p].from = "file"
    /\ LET enc == FileToAttachment(files, dirs, origin[p].path)
       IN  IF enc.ok
           THEN /\ desc' = [desc EXCEPT ![p] = enc.desc]
                /\ origin' = [origin EXCEPT ![p].from = "encoded",
                                            ![p].bytes = files[ResolveFile(dirs,
                                                origin[p].path).target]]
           ELSE /\ origin' = [origin EXCEPT ![p].from = "encode_err",
                                            ![p].err = enc.err]
                /\ UNCHANGED desc
    /\ UNCHANGED <<files, dirs, sv, batchVars>>
    /\ UNCHANGED <<subVars, detectVars>>

----------------------------------------------------------------------------
(* The batch operations *)

Ok(v) == [ok |-> TRUE, value |-> v, err |-> "none"]

Err(e) == [ok |-> FALSE, value |-> <<>>, err |-> e]

\* A loop that skips a failing element and goes on with the next one.
AfterElementErrorContinue(loop, i) == [pc |-> loop, i |-> i + 1]

\* The `?` of lines 39 and 92: an element's error leaves the loop and the
\* function; [pc, i] is where the batch stands afterwards.
AfterElementError(loop, i) == [pc |-> "err", i |-> i]

\* One iteration of files_to_attachments' loop, lines 38-41.
EncodeLoop ==
    /\ batch_pc = "enc_loop"
    /\ batch_i <= Len(batch)
    /\ processed' = Append(processed, batch_i)
    /\ LET enc == FileToAttachment(files, dirs, batch[batch_i])
           stop == AfterElementError("enc_loop", batch_i)
       IN  IF enc.ok
           THEN /\ batch_out' = Append(batch_out, enc.desc)
                /\ batch_i' = batch_i + 1
                /\ UNCHANGED <<batch_pc, batch_ret>>
           ELSE /\ batch_pc' = stop.pc
                /\ batch_i' = stop.i
                /\ batch_ret' = IF stop.pc = "err" THEN Err(enc.err) ELSE batch_ret
                /\ UNCHANGED batch_out
    /\ UNCHANGED <<files, dirs, sv, desc, origin, batch>>
    /\ UNCHANGED <<subVars, detectVars>>

\* Line 43.
EncodeReturn ==
    /\ batch_pc = "enc_loop"
    /\ batch_i > Len(batch)
    /\ batch_pc' = "ok"
    /\ batch_ret' = Ok(batch_out)
    /\ UNCHANGED <<files, dirs, sv, desc, origin, batch, batch_i, batch_out, processed>>
    /\ UNCHANGED <<subVars, detectVars>>

\* Line 92: process_attachment(attachment, save_dir) is called.
DecodeCall ==
    /\ batch_pc = "dec_loop"
    /\ batch_i <= Len(batch)
    /\ processed' = Append(processed, batch_i)
    /\ desc' = [desc EXCEPT ![1] = batch[batch_i]]
    /\ sv' = [sv EXCEPT ![1] = IdleCall(sv[1].save_dir)]
    /\ batch_pc' = "dec_wait"
    /\ UNCHANGED <<files, dirs, origin, batch, batch_i, batch_out, batch_ret>>
    /\ UNCHANGED <<subVars, detectVars>>

\* Lines 92-93: the call returned Ok(file_path).
DecodeCollect ==
    /\ batch_pc = "dec_wait"
    /\ sv[1].pc = "done"
    /\ batch_out' = Append(batch_out, FilePath(sv[1].save_dir, sv[1].filename))
    /\ batch_i' = batch_i + 1
    /\ batch_pc' = "dec_loop"
    /\ UNCHANGED <<files, dirs, sv, desc, origin, batch, batch_ret, processed>>
    /\ UNCHANGED <<subVars, detectVars>>

\* Line 92: the call returned Err.
DecodeFail ==
    /\ batch_pc = "dec_wait"
    /\ sv[1].pc = "err"
    /\ LET stop == AfterElementError("dec_loop", batch_i)
       IN  /\ batch_pc' = stop.pc
           /\ batch_i' = stop.i
           /\ batch_ret' = IF stop.pc = "err" THEN Err(sv[1].err) ELSE batch_ret
    /\ UNCHANGED <<files, dirs, sv, desc, origin, batch, batch_out, processed>>
    /\ UNCHANGED <<subVars, detectVars>>

\* Line 96.
DecodeReturn ==
    /\ batch_pc = "dec_loop"
    /\ batch_i > Len(batch)
    /\ batch_pc' = "ok"
    /\ batch_ret' = Ok(batch_out)
    /\ UNCHANGED <<files, dirs, sv, desc, origin, batch, batch_i, batch_out, processed>>
    /\ UNCHANGED <<subVars, detectVars>>

----------------------------------------------------------------------------
(* Specification of the substitution engine on its own: every text, and   *)
(* every ordered collection of pairs, within the bounds.                   *)

SubTexts == StrsUpTo(TextChars, MaxText)

SubPairs == [path : StrsUpTo(PathChars, MaxPath), url : StrsUpTo(UrlChars, MaxUrl)]

DetectIdle ==
    /\ fs_files = {}
    /\ home = [some |-> FALSE, dir |-> <<>>]
    /\ detected = <<>>
    /\ mentions = <<>>

NoResult == [ok |-> FALSE, value |-> <<>>, err |-> "none"]

NoOrigin == [from |-> "none", path |-> <<>>, bytes |-> <<>>, err |-> "none"]

BatchIdle ==
    /\ batch = <<>>
    /\ batch_i = 1
    /\ batch_out = <<>>
    /\ batch_pc = "idle"
    /\ batch_ret = NoResult
    /\ processed = <<>>

StoreIdle ==
    /\ files = <<>>
    /\ dirs = {<<>>, Cwd}
    /\ sv = [p \in Procs |-> IdleCall(<<>>)]
    /\ desc = [p \in Procs |-> NoDesc]
    /\ origin = [p \in Procs |-> NoOrigin]
    /\ BatchIdle

InitSub ==
    /\ sub_pc = "scan"
    /\ DetectIdle
    /\ StoreIdle
    /\ \E text \in SubTexts, pairs \in SeqsUpTo(SubPairs, MaxPairs) :
           SubStartState(text, pairs)

SpecSub == InitSub /\ [][SubNext]_vars

----------------------------------------------------------------------------
(* Specification of the outbound pipeline: detection, then substitution    *)
(* with one pair per detected path.                                        *)

Fragments ==
    { <<"/", "a">>, <<".">>, <<"~">>, <<" ">>, <<"C", ":", "\\", "a">>,
      <<"h", "t", "t", "p", ":", "/", "/", "a">> }

PipeFiles ==
    { <<"/", "a">>, <<".", "/", "a">>, <<"/", "h", "/", "a">>,
      <<"C", ":", "\\", "a">> }

HomeChoices ==
    { [some |-> FALSE, dir |-> <<>>], [some |-> TRUE, dir |-> <<"/", "h">>] }

InitPipe ==
    /\ sub_pc = "detect"
    /\ input \in StrsUpTo(Fragments, MaxFrags)
    /\ fs_files \in SUBSET PipeFiles
    /\ home \in HomeChoices
    /\ detected = <<>>
    /\ mentions = <<>>
    /\ path_url_map = <<>>
    /\ result = <<>>
    /\ path_positions = <<>>
    /\ pair_i = 1
    /\ start_idx = 0
    /\ pos_i = 1
    /\ StoreIdle

SpecPipe == InitPipe /\ [][PipeNext]_vars

----------------------------------------------------------------------------
(* Specification of the codec and the store with one caller: a file is     *)
(* encoded and its descriptor decoded and saved, or a descriptor received  *)
(* from the remote side is decoded and saved.                              *)

\* Byte values: all bits clear, all bits set, and two in between.
ByteVals == {0, 97, 255}

Contents == SeqsUpTo(ByteVals, MaxBytes)

Dir_t == <<<<"t">>>>

\* Files and directories present before the call.
OldBytes == <<1, 2, 3, 4, 5, 6, 7>>

Envs ==
    { [files |-> <<>>, dirs |-> {<<>>, Cwd}],
      [files |-> (<<<<"t">>, <<"f", ".", "c", "s", "v">>>> :> OldBytes),
       dirs |-> {<<>>, Cwd, Dir_t}],
      [files |-> (Dir_t :> <<>>), dirs |-> {<<>>, Cwd}] }

\* The paths handed to file_to_attachment: /f.csv, g (relative), /FF.
SrcPaths ==
    { <<"/", "f", ".", "c", "s", "v">>, <<"g">>, <<"/", "FF">> }

\* The target directories: /t and t/u (relative).
SaveDirs == { <<"/", "t">>, <<"t", "/", "u">> }

\* The names of received descriptors: f, ../f, /f, s/f.
RemoteNames ==
    { <<"f">>, <<".", ".", "/", "f">>, <<"/", "f">>, <<"s", "/", "f">> }

ContentFragments ==
    { <<"d", "a", "t", "a", ":", "x">>,
      <<";", "b", "a", "s", "e", "6", "4">>,
      <<";", "b", "a", "s", "e", "6", "4", ",">>,
      <<"Q", "Q", "=", "=">>,
      <<",">>,
      <<";">> }

RemoteContents == StrsUpTo(ContentFragments, MaxContentFrags)

RemoteDescs ==
    [content : {Some(c) : c \in RemoteContents}, name : {Some(n) : n \in RemoteNames}]
        \cup {[content |-> NoStr, name |-> Some(<<"f">>)],
              [content |-> Some(<<>>), name |-> NoStr]}

EnvWithFile(env, path, bytes) ==
    LET at == ResolveFile(env.dirs, path)
    IN  IF at.ok THEN [env EXCEPT !.files = PutFile(env.files, at.target, bytes)]
        ELSE env

InitCodecFile ==
    \E env \in Envs, path \in SrcPaths, bytes \in Contents, present \in BOOLEAN,
       save_dir \in SaveDirs :
        LET e == IF present THEN EnvWithFile(env, path, bytes) ELSE env
        IN  /\ files = e.files
            /\ dirs = e.dirs
            /\ origin = [p \in Procs |->
                   IF p = 1 THEN [NoOrigin EXCEPT !.from = "file", !.path = path]
                   ELSE NoOrigin]
            /\ desc = [p \in Procs |-> NoDesc]
            /\ sv = [p \in Procs |-> IdleCall(IF p = 1 THEN save_dir ELSE <<>>)]

InitCodecRemote ==
    \E env \in Envs, d \in RemoteDescs, save_dir \in SaveDirs :
        /\ files = env.files
        /\ dirs = env.dirs
        /\ origin = [p \in Procs |->
               IF p = 1 THEN [NoOrigin EXCEPT !.from = "remote"] ELSE NoOrigin]
        /\ desc = [p \in Procs |-> IF p = 1 THEN d ELSE NoDesc]
        /\ sv = [p \in Procs |-> IdleCall(IF p = 1 THEN save_dir ELSE <<>>)]

SubIdle ==
    /\ sub_pc = "idle"
    /\ SubStartState(<<>>, <<>>)

InitCodec ==
    /\ SubIdle
    /\ DetectIdle
    /\ BatchIdle
    /\ InitCodecFile \/ InitCodecRemote

CodecNext ==
    \/ Encode(1)
    \/ ProcessAttachment(1)
    \/ SaveDecode(1)
    \/ SaveCreateDirAll(1)
    \/ SaveCreate(1)
    \/ SaveWrite(1)
    \/ SaveReturn(1)

SpecCodec == InitCodec /\ [][CodecNext]_vars

----------------------------------------------------------------------------
(* Specification of two concurrent callers of process_attachment.          *)

DescOf(name, bytes) ==
    [content |-> Some(DataUrl(<<"x">>, B64Encode(bytes))), name |-> Some(name)]

RaceNames == { <<"f">>, <<"g">> }

RaceDescs == {DescOf(n, b) : n \in RaceNames, b \in SeqsUpTo(ByteVals, MaxRaceBytes)}

InitRace ==
    /\ SubIdle
    /\ DetectIdle
    /\ BatchIdle
    /\ files = <<>>
    /\ dirs = {<<>>, Cwd}
    /\ origin = [p \in Procs |-> [NoOrigin EXCEPT !.from = "remote"]]
    /\ desc \in [Procs -> RaceDescs]
    /\ \E save_dir \in SaveDirs : sv = [p \in Procs |-> IdleCall(save_dir)]

RaceNext ==
    \E p \in Procs :
        \/ ProcessAttachment(p)
        \/ SaveDecode(p)
        \/ SaveCreateDirAll(p)
        \/ SaveCreate(p)
        \/ SaveWrite(p)
        \/ SaveReturn(p)

SpecRace == InitRace /\ [][RaceNext]_vars

----------------------------------------------------------------------------
(* Specification of the batch operations.                                  *)

BatchFiles ==
    (<<<<"f", ".", "c", "s", "v">>>> :> <<97>>)
        @@ (<<<<"w">>, <<"g">>>> :> <<>>)
        @@ (<<<<"FF">>>> :> <<0>>)

\* /f.csv and g exist, /m does not, /FF has no UTF-8 name.
BatchPaths == { <<"/", "f", ".", "c", "s", "v">>, <<"g">>, <<"/", "m">>, <<"/", "FF">> }

BatchDescs ==
    { DescOf(<<"f">>, <<97>>),
      DescOf(<<"g">>, <<>>),
      [content |-> Some(<<"d", "a", "t", "a", ":", "x">>), name |-> Some(<<"f">>)],
      [content |-> Some(DataUrl(<<"x">>, <<"Q">>)), name |-> Some(<<"g">>)],
      [content |-> Some(DataUrl(<<"x">>, <<>>)), name |-> NoStr] }

InitBatchEncode ==
    /\ batch \in SeqsUpTo(BatchPaths, MaxBatch)
    /\ batch_pc = "enc_loop"
    /\ files = BatchFiles
    /\ dirs = {<<>>, Cwd}
    /\ sv = [p \in Procs |-> IdleCall(<<>>)]
    /\ origin = [p \in Procs |-> NoOrigin]

InitBatchDecode ==
    /\ batch \in SeqsUpTo(BatchDescs, MaxBatch)
    /\ batch_pc = "dec_loop"
    /\ \E env \in Envs :
           /\ files = env.files
           /\ dirs = env.dirs
    /\ \E save_dir \in SaveDirs :
           sv = [p \in Procs |-> IdleCall(IF p = 1 THEN save_dir ELSE <<>>)]
    /\ origin = [p \in Procs |->
           IF p = 1 THEN [NoOrigin EXCEPT !.from = "batch"] ELSE NoOrigin]

InitBatch ==
    /\ SubIdle
    /\ DetectIdle
    /\ batch_i = 1
    /\ batch_out = <<>>
    /\ batch_ret = NoResult
    /\ processed = <<>>
    /\ desc = [p \in Procs |-> NoDesc]
    /\ InitBatchEncode \/ InitBatchDecode

BatchNext ==
    \/ EncodeLoop
    \/ EncodeReturn
    \/ DecodeCall
    \/ ProcessAttachment(1)
    \/ SaveDecode(1)
    \/ SaveCreateDirAll(1)
    \/ SaveCreate(1)
    \/ SaveWrite(1)
    \/ SaveReturn(1)
    \/ DecodeCollect
    \/ DecodeFail
    \/ DecodeReturn

SpecBatch == InitBatch /\ [][BatchNext]_vars

----------------------------------------------------------------------------
(* Properties *)

Occurrences(text, p) == {i \in 0..Len(text) : OccursAt(text, p, i)}

Lowest(S) == CHOOSE i \in S : \A j \in S : i <= j

Highest(S) == CHOOSE i \in S : \A j \in S : i >= j

\* The text with the occurrences of p at the two offsets of `occ` replaced by u
\* and everything outside them kept.
BothReplaced(text, p, u, occ) ==
    Slice(text, 0, Lowest(occ)) \o u
        \o Slice(text, Lowest(occ) + Len(p), Highest(occ)) \o u
        \o Slice(text, Highest(occ) + Len(p), Len(text))

SubFinished == sub_pc \in {"done", "panic"}

\* C1: for a text that contains the path string twice and one pair (path, url)
\* for it, substitute_file_paths_with_urls returns the text with both
\* occurrences replaced by url and every other character unchanged, whatever
\* the text and the path string are.
C1_BothOccurrencesReplaced ==
    ( /\ SubFinished
      /\ Len(path_url_map) = 1
      /\ Cardinality(Occurrences(input, PathStr(1))) = 2 )
        => /\ sub_pc = "done"
           /\ result = BothReplaced(input, PathStr(1), path_url_map[1].url,
                                    Occurrences(input, PathStr(1)))

\* C6: substitute_file_paths_with_urls yields a result string for every text
\* and every ordered collection of pairs: it never aborts.
C6_NeverAborts == sub_pc # "panic"

RemainingSpans == {path_positions[k] : k \in pos_i..Len(path_positions)}

\* C10: the spans are computed against the unmodified text, replaced in order
\* of descending start, and at every replacement step every span not yet
\* consumed still covers the characters it was recorded for, with nothing to
\* its left shifted or altered.
C10_SpansStayValid ==
    /\ sub_pc = "scan" => result = input
    /\ sub_pc = "replace" =>
          /\ \A k \in 1..(Len(path_positions) - 1) :
                 path_positions[k].start >= path_positions[k + 1].start
          /\ \A sp \in RemainingSpans :
                 /\ sp.end <= Len(result)
                 /\ Slice(result, 0, sp.end) = Slice(input, 0, sp.end)

\* Whether the pair made for the k-th detected path found a span to rewrite.
Rewritten(k) == \E j \in 1..Len(path_positions) : path_positions[j].pair = k

\* C8: for every path detect_local_file_paths returns for a text, under each
\* of the four grammars, substituting the pair (returned path, assigned url)
\* in the same text rewrites the mention that produced the detection.
C8_DetectedMentionsRewritten ==
    sub_pc = "done" => \A k \in 1..Len(detected) : Rewritten(k)

SaveFinished(p) == sv[p].pc \in {"done", "err"}

\* The payload was decoded: the call is past line 64.
Decoded(p) == sv[p].pc \in {"mkdir", "create", "write", "done"}

\* The content was parsed: the call is past lines 49-64.
Parsed(p) == sv[p].pc \notin {"idle", "start"} /\ desc[p].content.some /\ desc[p].name.some

\* C2: for every file content, zero-length included, file_to_attachment
\* followed by process_attachment of that descriptor succeeds (no format or
\* decode error; an I/O error of the target directory aside) and writes bytes
\* identical to the file's.
C2_RoundTrip ==
    (origin[1].from = "encoded" /\ SaveFinished(1) /\ sv[1].err # "io")
        => /\ sv[1].pc = "done"
           /\ files[sv[1].target] = origin[1].bytes

C2_Witness ==
    /\ origin[1].from = "encoded"
    /\ sv[1].pc = "done"
    /\ origin[1].bytes = <<>>
    /\ files[sv[1].target] = <<>>

Has(s, c) == \E i \in 1..Len(s) : s[i] = c

\* What follows the first c in s.
After(s, c) == Slice(s, Find(s, <<c>>) + 1, Len(s))

NoSemicolon(s) == ~Has(s, ";")

NoCommaAfterSemicolon(s) == Has(s, ";") /\ ~Has(After(s, ";"), ",")

EmptyPayload(s) ==
    /\ Has(s, ";")
    /\ Has(After(s, ";"), ",")
    /\ After(After(s, ";"), ",") = <<>>

\* One ';' with a ':' before it, and one ',' after it.
OneOfEach(s) ==
    /\ Len(Split(s, ";")) = 2
    /\ Has(Split(s, ";")[1], ":")
    /\ Len(Split(After(s, ";"), ",")) = 2

\* C3 as stated: content with no ';', with no ',' after the ';', or with an
\* empty payload segment after the ',' yields an error and never succeeds.
C3_MalformedRejected ==
    ( /\ Parsed(1)
      /\ \/ NoSemicolon(sv[1].data_url)
         \/ NoCommaAfterSemicolon(sv[1].data_url)
         \/ EmptyPayload(sv[1].data_url) )
        => sv[1].pc = "err" /\ sv[1].err \in {"format", "decode"}

\* C3 as amended: content with no ';' or with no ',' after the ';' yields a
\* format error and never succeeds; an empty payload segment is no error: with
\* one ';' (a ':' before it) and one ',', it decodes to zero bytes and the save
\* goes on.
C3_MalformedRejectedExceptEmpty ==
    /\ ( /\ Parsed(1)
         /\ NoSemicolon(sv[1].data_url) \/ NoCommaAfterSemicolon(sv[1].data_url) )
           => sv[1].pc = "err" /\ sv[1].err = "format"
    /\ ( /\ Parsed(1)
         /\ EmptyPayload(sv[1].data_url)
         /\ OneOfEach(sv[1].data_url) )
           => /\ sv[1].err \notin {"format", "decode"}
              /\ Decoded(1) \/ sv[1].err = "io"
              /\ sv[1].decoded = <<>>

C3_Witness ==
    /\ Parsed(1)
    /\ origin[1].from = "remote"
    /\ EmptyPayload(sv[1].data_url)
    /\ sv[1].pc = "done"
    /\ files[sv[1].target] = <<>>

IsPrefix(a, b) == Len(a) <= Len(b) /\ SubSeq(b, 1, Len(a)) = a

\* The resolved target directory of a call.
TargetDir(p) == StartDir(sv[p].save_dir) \o PathComponents(sv[p].save_dir)

\* C4: whatever the descriptor's name is, the file that process_attachment
\* creates or overwrites is located under the target directory.
C4_WritesOnlyUnderTargetDir ==
    sv[1].pc \in {"write", "done"}
        => IsPrefix(TargetDir(1), sv[1].target) /\ sv[1].target # TargetDir(1)

\* C5: when two saves to the same destination path run concurrently, their
\* create and write steps interleaved in any order, and both succeed, the
\* file's final content is the decoded bytes of one of the two descriptors.
\* (Stated for the runs in which each write_all is a single write step.)
C5_LastWriteWins ==
    ( /\ sv[1].pc = "done"
      /\ sv[2].pc = "done"
      /\ sv[1].target = sv[2].target
      /\ sv[1].writes <= 1
      /\ sv[2].writes <= 1 )
        => files[sv[1].target] \in {sv[1].decoded, sv[2].decoded}

\* Split once on the first ';', then once on the first ',' of the remainder.
SplitOnce(s) ==
    IF NoSemicolon(s) \/ NoCommaAfterSemicolon(s) THEN [ok |-> FALSE, payload |-> <<>>]
    ELSE [ok |-> TRUE, payload |-> After(After(s, ";"), ",")]

\* C7: the payload handed to the base64 decoder is the entire rest of the
\* content after the first ',' that follows the first ';'; no part of the
\* content is ignored.
C7_WholeRestIsPayload ==
    Parsed(1) =>
        LET r == SplitOnce(sv[1].data_url)
        IN  /\ Decoded(1) =>
                  /\ r.ok
                  /\ B64Decode(r.payload).ok
                  /\ sv[1].decoded = B64Decode(r.payload).bytes
            /\ (r.ok /\ ~B64Decode(r.payload).ok) => sv[1].pc = "err"

Decoding == origin[1].from = "batch"

\* Whether an element is rejected whatever the file system holds.
BadDescriptor(d) ==
    \/ ~d.content.some
    \/ ~d.name.some
    \/ ~ParseDataUrl(d.content.str).ok
    \/ ~B64Decode(ParseDataUrl(d.content.str).payload).ok

ElementOk(j) ==
    IF Decoding THEN ~BadDescriptor(batch[j])
    ELSE FileToAttachment(files, dirs, batch[j]).ok

ElementValue(j) ==
    IF Decoding THEN FilePath(sv[1].save_dir, batch[j].name.str)
    ELSE FileToAttachment(files, dirs, batch[j]).desc

FilesBefore == UNION {DOMAIN e.files : e \in Envs} \cup DOMAIN BatchFiles

\* The file the j-th descriptor of the batch is saved to.
WrittenFor(j, f) ==
    /\ batch[j].name.some
    /\ ResolveFile(dirs, FilePath(sv[1].save_dir, batch[j].name.str)).ok
    /\ ResolveFile(dirs, FilePath(sv[1].save_dir, batch[j].name.str)).target = f

\* C9: the batch operations handle their elements in input order; at the
\* first element that fails they return that element's error with no partial
\* list and process no later element (no file is written for a later
\* descriptor); on success the result has one entry per element, in order.
C9_BatchFailFast ==
    /\ processed = [k \in 1..Len(processed) |-> k]
    /\ \A f \in DOMAIN files \ FilesBefore :
           \E j \in 1..Len(processed) : WrittenFor(j, f)
    /\ batch_pc = "err" =>
          /\ ~batch_ret.ok
          /\ batch_ret.value = <<>>
          /\ batch_ret.err # "none"
          /\ Len(processed) = batch_i
          /\ \A j \in 1..(batch_i - 1) : ElementOk(j)
          /\ batch_ret.err # "io" => ~ElementOk(batch_i)
    /\ batch_pc = "ok" =>
          /\ batch_ret.ok
          /\ Len(batch_ret.value) = Len(batch)
          /\ Len(processed) = Len(batch)
          /\ \A j \in 1..Len(batch) :
                 ElementOk(j) /\ batch_ret.value[j] = ElementValue(j)

C9_Witness ==
    /\ Decoding
    /\ batch_pc = "err"
    /\ Len(batch) = 3
    /\ batch_i = 2
    /\ DOMAIN files \ FilesBefore # {}

====
